---- MODULE Spec2Model ----
(***************************************************************************)
(* Model of my_model_selectors.py: the four HMM model selectors            *)
(* (SelectorConstant, SelectorBIC, SelectorDIC, SelectorCV) over one       *)
(* selector instance.  A sequence is modelled by its length (number of     *)
(* frames); the feature matrix X by its number of rows and columns.  The   *)
(* trainer (GaussianHMM.fit / .score) is an external collaborator: each    *)
(* call's outcome is chosen nondeterministically the first time it is made *)
(* with given arguments and remembered, so that the trainer is a           *)
(* deterministic function of its arguments.  Log-likelihoods and ln(N) are *)
(* integers in units of 1/1000.                                            *)
(***************************************************************************)
EXTENDS Integers, Sequences, FiniteSets, TLC

\* ---------------------------------------------------------------- bounds
MaxSeqs == 3
MaxSeqLen == 2
MaxDim == 1
MaxN == 2
MaxSelects == 2

\* Default of the random_state argument of ModelSelector.__init__.
DefaultRandomState == 14

\* Log-likelihoods (x1000) a score call may return.
LogLs == {-8960, -4480}

Strategies == {"Constant", "BIC", "DIC", "CV"}

VARIABLES
    args,               \* the arguments the selector was constructed with
    strategy,           \* which subclass of ModelSelector the instance is
    words, hwords,      \* self.words, self.hwords
    this_word,          \* self.this_word
    sequences,          \* self.sequences: the lengths of the word's sequences
    X, lengths,         \* self.X (rows, columns), self.lengths
    n_constant, min_n_components, max_n_components, random_state,
    pc,                 \* position inside select(): "idle" between calls
    num,                \* loop variable of the candidate loop
    record,             \* best score so far
    hmm_model,          \* best model so far
    logL, cnt, model,   \* SelectorCV.select locals
    fold,               \* index of the next fold of split_method.split
    n_splits,           \* KFold(n_splits=...)
    fitMemo, scoreMemo, \* the trainer's answers so far
    calls,              \* trainer fit requests of the current select()
    results             \* outcomes of the completed select() calls

fields == <<words, hwords, this_word, sequences, X, lengths,
            n_constant, min_n_components, random_state>>
locals == <<num, record, hmm_model, logL, cnt, model, fold, n_splits>>
vars == <<args, strategy, fields, max_n_components, pc, locals,
          fitMemo, scoreMemo, calls, results>>

\* ------------------------------------------------------------- helpers
Min(a, b) == IF a < b THEN a ELSE b

RECURSIVE SumSeq(_)
SumSeq(s) == IF s = <<>> THEN 0 ELSE Head(s) + SumSeq(Tail(s))

\* min([len(seq) for seq in self.sequences])
MinSeq(seqs) == CHOOSE m \in {seqs[i] : i \in DOMAIN seqs} :
                    \A i \in DOMAIN seqs : m <= seqs[i]

\* The sequences with indices in idx, in order (asl_utils.combine_sequences).
RECURSIVE Pick(_, _, _)
Pick(seqs, idx, i) ==
    IF i > Len(seqs) THEN <<>>
    ELSE (IF i \in idx THEN <<seqs[i]>> ELSE <<>>) \o Pick(seqs, idx, i + 1)

combine_sequences(idx, seqs) == [idx |-> idx, lengths |-> Pick(seqs, idx, 1)]

\* float("inf"), float("-inf") and finite scores.
PosInf == [fin |-> FALSE, v |-> 1]
NegInf == [fin |-> FALSE, v |-> -1]
Fin(v) == [fin |-> TRUE, v |-> v]

\* a < b on floats with infinities.
Lt(a, b) ==
    IF a.fin /\ b.fin THEN a.v < b.v
    ELSE IF a.fin THEN b.v > 0
    ELSE IF b.fin THEN a.v < 0
    ELSE a.v < b.v

\* np.log(N) x 1000, rounded.
LnMilli(N) ==
    CASE N = 1 -> 0 [] N = 2 -> 693 [] N = 3 -> 1099 [] N = 4 -> 1386
      [] N = 5 -> 1609 [] N = 6 -> 1792 [] N = 7 -> 1946 [] N = 8 -> 2079
      [] N = 9 -> 2197 [] N = 10 -> 2303 [] N = 11 -> 2398 [] N = 12 -> 2485
      [] N = 13 -> 2565 [] N = 14 -> 2639 [] N = 15 -> 2708 [] N = 16 -> 2773

\* ------------------------------------------------------ trainer models
None == [kind |-> "None", n |-> 0, seed |-> "", idx |-> {}]
Raised == [kind |-> "Raised", n |-> 0, seed |-> "", idx |-> {}]
Model(n, seed, idx) == [kind |-> "Model", n |-> n, seed |-> seed, idx |-> idx]
IsModel(r) == r.kind = "Model"

ScoreFailure == [ok |-> FALSE, v |-> 0]
Score(v) == [ok |-> TRUE, v |-> v]
ScoreOutcomes == {ScoreFailure} \cup {Score(v) : v \in LogLs}

\* The trainer answers a repeated request as it answered it before.
Answers(memo, key, out) == key \in DOMAIN memo => memo[key] = out
Remember(memo, key, out) == IF key \in DOMAIN memo THEN memo ELSE memo @@ (key :> out)

FullIdx == 1..Len(sequences)

Call(n, seed, idx, ok, sc) == [n |-> n, seed |-> seed, idx |-> idx, fit |-> ok, score |-> sc]

\* ---------------------------------------------------------------- Init
SeqSets == UNION {[1..k -> 1..MaxSeqLen] : k \in 1..MaxSeqs}

\* Values tried for n_constant and min_n_components: the two largest state
\* counts up to MaxN, so that a search visits at most two candidates.
LowNs == {n \in 1..MaxN : n >= MaxN - 1}

OtherWord == "CHAIR"
OtherSeqs == <<1>>

\* The arguments of ModelSelector.__init__.
Vocabulary(seqs) == [w \in {"BOOK", OtherWord} |-> IF w = "BOOK" THEN seqs ELSE OtherSeqs]

XLengths(seqs, d) == [rows |-> SumSeq(seqs), cols |-> d, lengths |-> seqs]

Arguments ==
    {[all_word_sequences |-> Vocabulary(seqs),
      all_word_Xlengths |-> [w \in {"BOOK", OtherWord} |-> XLengths(Vocabulary(seqs)[w], d)],
      this_word |-> "BOOK",
      n_constant |-> nc, min_n_components |-> lo, max_n_components |-> hi,
      random_state |-> DefaultRandomState] :
        seqs \in SeqSets, d \in 1..MaxDim, nc \in LowNs, lo \in LowNs, hi \in 1..MaxN}

Init ==
    /\ strategy \in Strategies
    /\ args \in Arguments
    /\ words = args.all_word_sequences
    /\ hwords = args.all_word_Xlengths
    /\ sequences = args.all_word_sequences[args.this_word]
    /\ X = [rows |-> args.all_word_Xlengths[args.this_word].rows,
            cols |-> args.all_word_Xlengths[args.this_word].cols]
    /\ lengths = args.all_word_Xlengths[args.this_word].lengths
    /\ this_word = args.this_word
    /\ n_constant = args.n_constant
    /\ min_n_components = args.min_n_components
    /\ max_n_components = args.max_n_components
    /\ random_state = args.random_state
    /\ pc = "idle"
    /\ num = 0
    /\ record = NegInf
    /\ hmm_model = None
    /\ logL = 0
    /\ cnt = 0
    /\ model = None
    /\ fold = 0
    /\ n_splits = 0
    /\ fitMemo = <<>>
    /\ scoreMemo = <<>>
    /\ calls = <<>>
    /\ results = <<>>

CanCall == pc = "idle" /\ Len(results) < MaxSelects

\* ---------------------------------------------------------- base_model
\* Mutant: the fallback model is fitted with the lower search bound.
FallbackFromLowerBound == min_n_components

\* The state count select() passes to base_model for the fallback model.
FallbackStates == n_constant

\* base_model(num_states): the fitted model, or None when the fit raises.
base_model(num_states, ok) ==
    IF ok THEN Model(num_states, "seeded", FullIdx) ELSE None

BaseKey(num_states) == <<num_states, "seeded", FullIdx>>

\* ---------------------------------------------------- SelectorConstant
ConstantSelect ==
    /\ CanCall
    /\ strategy = "Constant"
    /\ \E ok \in BOOLEAN :
         /\ Answers(fitMemo, BaseKey(n_constant), ok)
         /\ fitMemo' = Remember(fitMemo, BaseKey(n_constant), ok)
         /\ calls' = <<Call(n_constant, "seeded", FullIdx, ok, ScoreFailure)>>
         /\ results' = Append(results, base_model(n_constant, ok))
    /\ UNCHANGED <<args, strategy, fields, max_n_components, pc, locals, scoreMemo>>

\* --------------------------------------------------------- SelectorBIC
\* Mutant: the upper search bound is left as configured.
NotClamped(maxn, seqs) == maxn

\* Mutant: the upper search bound is overwritten by the shortest length.
ClampedToShortest(maxn, seqs) == MinSeq(seqs)

\* self.max_n_components = min(self.max_n_components, min_seq)
ClampedMax(maxn, seqs) == Min(maxn, MinSeq(seqs))

\* p = num*num + 2*num*len(self.X[0]) - 1
FreeParams(n, d) == n * n + 2 * n * d - 1

\* BIC = -2*logL + p*np.log(len(self.X))
BICScore(ll, n, d, rows) == -2 * ll + FreeParams(n, d) * LnMilli(rows)

\* Mutant: if BIC <= record
BICBetterOrEqual(bic, rec) == ~Lt(rec, Fin(bic))

\* if BIC < record
BICBetter(bic, rec) == Lt(Fin(bic), rec)

BICStart ==
    /\ CanCall
    /\ strategy = "BIC"
    /\ record' = PosInf
    /\ max_n_components' = ClampedMax(max_n_components, sequences)
    /\ \E ok \in BOOLEAN :
         /\ Answers(fitMemo, BaseKey(FallbackStates), ok)
         /\ fitMemo' = Remember(fitMemo, BaseKey(FallbackStates), ok)
         /\ calls' = <<Call(FallbackStates, "seeded", FullIdx, ok, ScoreFailure)>>
         /\ hmm_model' = base_model(FallbackStates, ok)
    /\ num' = min_n_components
    /\ pc' = "bic_loop"
    /\ UNCHANGED <<args, strategy, fields, logL, cnt, model, fold, n_splits, scoreMemo, results>>

\* One iteration of the candidate loop, lines 87-99.
BICCandidate ==
    /\ pc = "bic_loop"
    /\ num <= max_n_components
    /\ LET m == Model(num, "unseeded", FullIdx)
           fk == <<num, "unseeded", FullIdx>>
           sk == <<m, FullIdx>>
       IN \/ /\ Answers(fitMemo, fk, FALSE)
             /\ fitMemo' = Remember(fitMemo, fk, FALSE)
             /\ calls' = Append(calls, Call(num, "unseeded", FullIdx, FALSE, ScoreFailure))
             /\ UNCHANGED <<scoreMemo, record, hmm_model>>
          \/ /\ Answers(fitMemo, fk, TRUE)
             /\ fitMemo' = Remember(fitMemo, fk, TRUE)
             /\ \E sc \in ScoreOutcomes :
                  /\ Answers(scoreMemo, sk, sc)
                  /\ scoreMemo' = Remember(scoreMemo, sk, sc)
                  /\ calls' = Append(calls, Call(num, "unseeded", FullIdx, TRUE, sc))
                  /\ IF sc.ok /\ BICBetter(BICScore(sc.v, num, X.cols, X.rows), record)
                     THEN /\ record' = Fin(BICScore(sc.v, num, X.cols, X.rows))
                          /\ hmm_model' = m
                     ELSE UNCHANGED <<record, hmm_model>>
    /\ num' = num + 1
    /\ UNCHANGED <<args, strategy, fields, max_n_components, pc, logL, cnt, model, fold,
                   n_splits, results>>

BICReturn ==
    /\ pc = "bic_loop"
    /\ num > max_n_components
    /\ results' = Append(results, hmm_model)
    /\ pc' = "idle"
    /\ UNCHANGED <<args, strategy, fields, max_n_components, locals, fitMemo, scoreMemo, calls>>

\* --------------------------------------------------------- SelectorDIC
\* Lines 118-121: best_n, best_DIC and best_model are set, then
\* "n_components = n" reads the local n (the loop variable of line 123)
\* before it is assigned: UnboundLocalError leaves select().
DICSelect ==
    /\ CanCall
    /\ strategy = "DIC"
    /\ calls' = <<>>
    /\ results' = Append(results, Raised)
    /\ UNCHANGED <<args, strategy, fields, max_n_components, pc, locals, fitMemo, scoreMemo>>

\* ---------------------------------------------------------- SelectorCV
\* KFold(n_splits=k) without shuffling over n samples: fold i (1..k) tests
\* a block of consecutive indices, the first n % k blocks one longer.
FoldSize(n, k, i) == (n \div k) + (IF i <= n % k THEN 1 ELSE 0)

RECURSIVE FoldStart(_, _, _)
FoldStart(n, k, i) == IF i <= 1 THEN 0 ELSE FoldStart(n, k, i - 1) + FoldSize(n, k, i - 1)

cv_test_idx(n, k, i) == (FoldStart(n, k, i) + 1)..(FoldStart(n, k, i) + FoldSize(n, k, i))
cv_train_idx(n, k, i) == (1..n) \ cv_test_idx(n, k, i)

\* Mutant: three folds whatever the number of sequences.
NSplitsAlwaysThree(nseq) == 3

\* KFold(n_splits=2) for two sequences, KFold(n_splits=3, ...) otherwise.
NSplits(nseq) == IF nseq = 2 THEN 2 ELSE 3

\* logL/cnt > record, for cnt > 0
MeanGt(ll, c, rec) == IF rec.fin THEN ll > rec.v * c ELSE rec.v < 0

\* Lines 163-174, then the set-up of the first candidate (lines 177-180).
CVStart ==
    /\ CanCall
    /\ strategy = "CV"
    /\ record' = NegInf
    /\ max_n_components' = ClampedMax(max_n_components, sequences)
    /\ \E ok \in BOOLEAN :
         /\ Answers(fitMemo, BaseKey(FallbackStates), ok)
         /\ fitMemo' = Remember(fitMemo, BaseKey(FallbackStates), ok)
         /\ calls' = <<Call(FallbackStates, "seeded", FullIdx, ok, ScoreFailure)>>
         /\ hmm_model' = base_model(FallbackStates, ok)
    /\ IF Len(sequences) = 1
       THEN /\ results' = Append(results, hmm_model')
            /\ UNCHANGED <<pc, num, logL, cnt, fold, n_splits>>
       ELSE /\ n_splits' = NSplits(Len(sequences))
            /\ num' = min_n_components
            /\ logL' = 0
            /\ cnt' = 0
            /\ fold' = 1
            /\ pc' = "cv_loop"
            /\ UNCHANGED results
    /\ UNCHANGED <<args, strategy, fields, model, scoreMemo>>

\* One iteration of the fold loop, lines 182-190.
CVFold ==
    /\ pc = "cv_loop"
    /\ num <= max_n_components
    /\ fold <= n_splits
    /\ LET train == cv_train_idx(Len(sequences), n_splits, fold)
           test == cv_test_idx(Len(sequences), n_splits, fold)
           Xtrain == combine_sequences(train, sequences)
           Xtest == combine_sequences(test, sequences)
           m == Model(num, "unseeded", Xtrain.idx)
           fk == <<num, "unseeded", Xtrain.idx>>
           sk == <<m, Xtest.idx>>
       IN \/ /\ Answers(fitMemo, fk, FALSE)
             /\ fitMemo' = Remember(fitMemo, fk, FALSE)
             /\ calls' = Append(calls, Call(num, "unseeded", train, FALSE, ScoreFailure))
             /\ UNCHANGED <<scoreMemo, logL, model>>
          \/ /\ Answers(fitMemo, fk, TRUE)
             /\ fitMemo' = Remember(fitMemo, fk, TRUE)
             /\ model' = m
             /\ \E sc \in ScoreOutcomes :
                  /\ Answers(scoreMemo, sk, sc)
                  /\ scoreMemo' = Remember(scoreMemo, sk, sc)
                  /\ calls' = Append(calls, Call(num, "unseeded", train, TRUE, sc))
                  /\ logL' = IF sc.ok THEN logL + sc.v ELSE logL
    /\ fold' = fold + 1
    /\ UNCHANGED <<args, strategy, fields, max_n_components, pc, num, record, hmm_model, cnt,
                   n_splits, results>>

\* Lines 192-194 after the folds of one candidate, then the next candidate
\* (lines 177-180).  cnt is never incremented by the fold loop.
CVCandidateEnd ==
    /\ pc = "cv_loop"
    /\ num <= max_n_components
    /\ fold > n_splits
    /\ IF cnt > 0 /\ MeanGt(logL, cnt, record)
       THEN /\ record' = Fin(logL)
            /\ hmm_model' = model
       ELSE UNCHANGED <<record, hmm_model>>
    /\ num' = num + 1
    /\ logL' = 0
    /\ cnt' = 0
    /\ fold' = 1
    /\ UNCHANGED <<args, strategy, fields, max_n_components, pc, model, n_splits,
                   fitMemo, scoreMemo, calls, results>>

CVReturn ==
    /\ pc = "cv_loop"
    /\ num > max_n_components
    /\ results' = Append(results, hmm_model)
    /\ pc' = "idle"
    /\ UNCHANGED <<args, strategy, fields, max_n_components, locals, fitMemo, scoreMemo, calls>>

Next ==
    \/ ConstantSelect
    \/ BICStart
    \/ BICCandidate
    \/ BICReturn
    \/ DICSelect
    \/ CVStart
    \/ CVFold
    \/ CVCandidateEnd
    \/ CVReturn

Spec == Init /\ [][Next]_vars
\* =================================================================
\* Properties
\* =================================================================
\* A select() call has returned (or raised) and no other is running; calls
\* then holds the trainer requests of that call.
Done == pc = "idle" /\ results # <<>>
LastResult == results[Len(results)]

\* Trainer requests of the candidate loop (base_model's are "seeded").
Cands == {i \in DOMAIN calls : calls[i].seed = "unseeded"}
Succ == {i \in Cands : calls[i].fit /\ calls[i].score.ok}
Range == min_n_components..Min(max_n_components, MinSeq(sequences))

RECURSIVE SumLL(_)
SumLL(S) == IF S = {} THEN 0
            ELSE LET i == CHOOSE j \in S : TRUE
                 IN calls[i].score.v + SumLL(S \ {i})

\* ---- C1: no error escapes select(): every completed call returned a
\* trained model or None.
NoErrorEscapes ==
    \A i \in DOMAIN results : results[i].kind \in {"Model", "None"}

\* ---- C2: CV on a word with at least 2 sequences scores a candidate by
\* the mean test log-likelihood of its successful folds and, when some
\* candidate has a successful fold, returns a model fitted for the candidate
\* of strictly greatest mean (earliest on ties), not the constant fallback.
OkFolds(n) == {i \in Succ : calls[i].n = n}
MeanGreater(a, b) ==
    SumLL(OkFolds(a)) * Cardinality(OkFolds(b)) > SumLL(OkFolds(b)) * Cardinality(OkFolds(a))
BestMean(n) ==
    /\ OkFolds(n) # {}
    /\ \A m \in Range : OkFolds(m) # {} =>
         /\ m < n => MeanGreater(n, m)
         /\ m > n => ~MeanGreater(m, n)
CVReturnsBestMean ==
    (strategy = "CV" /\ Done /\ Len(sequences) >= 2 /\ Succ # {}) =>
        /\ IsModel(LastResult)
        /\ LastResult.seed = "unseeded"
        /\ BestMean(LastResult.n)

\* ---- C3: DIC fits every candidate of [min_n_components, max_n_components],
\* scores each fitted one as logL(target) - sum(logL(other words)) / (M - 1),
\* and returns the model of the candidate of strictly greatest DIC.
OtherWords == DOMAIN words \ {this_word}
DICModel(n) == Model(n, "unseeded", FullIdx)
DICScored(n) ==
    /\ <<DICModel(n), this_word>> \in DOMAIN scoreMemo
    /\ scoreMemo[<<DICModel(n), this_word>>].ok
    /\ \A w \in OtherWords : /\ <<DICModel(n), w>> \in DOMAIN scoreMemo
                             /\ scoreMemo[<<DICModel(n), w>>].ok
RECURSIVE SumOthers(_, _)
SumOthers(n, W) == IF W = {} THEN 0
                   ELSE LET w == CHOOSE x \in W : TRUE
                        IN scoreMemo[<<DICModel(n), w>>].v + SumOthers(n, W \ {w})
\* DIC times (M - 1)
DICTimes(n) == scoreMemo[<<DICModel(n), this_word>>].v * (Cardinality(DOMAIN words) - 1)
               - SumOthers(n, OtherWords)
DICReturnsBest ==
    (strategy = "DIC" /\ Done) =>
        /\ LastResult.kind # "Raised"
        /\ \A n \in min_n_components..max_n_components :
             \E i \in Cands : calls[i].n = n /\ calls[i].idx = FullIdx
        /\ \A n \in min_n_components..max_n_components : DICScored(n) =>
             /\ IsModel(LastResult)
             /\ DICScored(LastResult.n)
             /\ DICTimes(LastResult.n) >= DICTimes(n)
             /\ DICTimes(LastResult.n) = DICTimes(n) => LastResult.n <= n

\* ---- C4: BIC visits the candidates of [min_n_components,
\* min(max_n_components, shortest sequence)] in ascending order and returns
\* the model of the successfully fitted candidate of lowest
\* BIC = -2*logL + (n*n + 2*n*d - 1)*ln(N), the smallest n among equal BICs;
\* of two fits of equal log-likelihood the one with more parameters is not
\* chosen.
BICOf(i) == -2 * calls[i].score.v
            + (calls[i].n * calls[i].n + 2 * calls[i].n * X.cols - 1) * LnMilli(X.rows)
BICReturnsLowest ==
    (strategy = "BIC" /\ Done) =>
        /\ Len(calls) = 1 + Cardinality(Range)
        /\ \A k \in 1..Cardinality(Range) :
             /\ calls[k + 1].seed = "unseeded"
             /\ calls[k + 1].idx = FullIdx
             /\ calls[k + 1].n = min_n_components + k - 1
        /\ Succ # {} =>
             \E b \in Succ :
                /\ LastResult = Model(calls[b].n, "unseeded", FullIdx)
                /\ \A j \in Succ : /\ BICOf(b) <= BICOf(j)
                                   /\ BICOf(b) = BICOf(j) => calls[b].n <= calls[j].n
        /\ \A a \in Succ : \A b \in Succ :
             (calls[a].score.v = calls[b].score.v /\ calls[a].n < calls[b].n)
                => LastResult.n # calls[b].n
\* Two successfully fitted candidates tie on BIC.
BICTieWitness ==
    /\ strategy = "BIC" /\ Done
    /\ \E a \in Succ : \E b \in Succ : a # b /\ BICOf(a) = BICOf(b)
    /\ IsModel(LastResult) /\ LastResult.seed = "unseeded"

\* ---- C5: CV with 1 sequence makes no candidate fit and returns
\* base_model(n_constant); with 2 sequences every candidate is evaluated on
\* exactly 2 folds, with 3 or more on exactly 3 folds.
FoldsOf(n) == {i \in Cands : calls[i].n = n}
CVFoldCount ==
    (strategy = "CV" /\ Done) =>
        /\ calls[1].seed = "seeded" /\ calls[1].n = n_constant
        /\ Len(sequences) = 1 =>
             /\ Cands = {}
             /\ LastResult = IF calls[1].fit
                             THEN Model(n_constant, "seeded", FullIdx) ELSE None
        /\ Len(sequences) = 2 =>
             \A n \in Range : Cardinality(FoldsOf(n)) = 2
        /\ Len(sequences) >= 3 =>
             \A n \in Range : Cardinality(FoldsOf(n)) = 3
        /\ \A i \in Cands : calls[i].n \in Range
\* A CV select over three or more sequences that evaluated two candidates.
CVFoldWitness ==
    /\ strategy = "CV" /\ Done
    /\ Len(sequences) >= 3
    /\ Cardinality(Range) = 2
    /\ Cardinality(Cands) = 6

\* ---- C6: DIC, when the fit or scoring of every candidate fails, returns
\* None: it neither raises nor fits a further model.
DICAllFailReturnsNone ==
    (strategy = "DIC" /\ Done /\ Succ = {}) => LastResult = None

SelectIdempotent ==
    Len(results) >= 2 =>
        /\ results[1].kind \in {"Model", "None"}
        /\ results[2] = results[1]

\* ---- C9 (as claimed): during BIC and CV select no trainer call, the
\* fallback fit included, requests more states than the shortest sequence
\* has frames.
NoRequestAboveShortest ==
    strategy \in {"BIC", "CV"} =>
        \A i \in DOMAIN calls : calls[i].n <= MinSeq(sequences)

\* ---- C9 (amended): during BIC and CV select no candidate fit of the
\* search loop requests more states than the shortest sequence has frames;
\* the fallback fit requests n_constant states whatever that length is.
CandidateRequestsClamped ==
    strategy \in {"BIC", "CV"} =>
        \A i \in DOMAIN calls :
            /\ calls[i].seed = "unseeded" => calls[i].n <= MinSeq(sequences)
            /\ calls[i].seed = "seeded" => calls[i].n = n_constant
\* A candidate fit at the clamp, after a fallback fit above it.
ClampWitness ==
    /\ strategy \in {"BIC", "CV"}
    /\ args.max_n_components > MinSeq(sequences)
    /\ \E i \in Cands : calls[i].n = MinSeq(sequences)
    /\ calls[1].seed = "seeded" /\ calls[1].n > MinSeq(sequences)

\* ---- C10: select() leaves the stored word data, n_constant,
\* min_n_components and random_state as constructed; max_n_components is
\* the only field written: BIC and CV set it to min(constructed value,
\* shortest sequence length) on their first call and every later call leaves
\* it there; Constant and DIC never write it.
Started == results # <<>> \/ pc # "idle"
SelectFrame ==
    /\ words = args.all_word_sequences
    /\ hwords = args.all_word_Xlengths
    /\ sequences = args.all_word_sequences[args.this_word]
    /\ X.rows = args.all_word_Xlengths[args.this_word].rows
    /\ X.cols = args.all_word_Xlengths[args.this_word].cols
    /\ lengths = args.all_word_Xlengths[args.this_word].lengths
    /\ this_word = args.this_word
    /\ n_constant = args.n_constant
    /\ min_n_components = args.min_n_components
    /\ random_state = args.random_state
    /\ max_n_components <= args.max_n_components
    /\ max_n_components =
         IF strategy \in {"BIC", "CV"} /\ Started
         THEN Min(args.max_n_components, MinSeq(sequences))
         ELSE args.max_n_components
\* Two selects completed and the first lowered max_n_components.
FrameWitness ==
    /\ Len(results) >= 2
    /\ strategy \in {"BIC", "CV"}
    /\ max_n_components < args.max_n_components
====
